---------------------------- MODULE Spec2Model ----------------------------
(***************************************************************************)
(* fingertips: the concurrent staged indexing pipeline.                    *)
(*                                                                         *)
(*   src/src/off_thread_ext.rs  off_thread, errors_to, condition_reduce    *)
(*   src/src/main.rs            run_single_threaded, run_pipeline, run     *)
(*                                                                         *)
(* The state machines of this module:                                      *)
(*   SpecOffThread  one call of off_thread on a finite source, with the    *)
(*                  caller draining (or dropping) the returned sequence;   *)
(*   SpecReduce     one ConditionAccmulator driven by repeated next();     *)
(*   Spec           the program run on one document list, first with       *)
(*                  --single-threaded and then without;                    *)
(*   FairSpec       Spec with every runnable thread eventually scheduled;  *)
(*   SpecIndexStage run_pipeline from the spawn of stage 2, on every       *)
(*                  Message make_single_file_index can be handed.          *)
(***************************************************************************)
EXTENDS Integers, Sequences, FiniteSets, TLC

(***************************************************************************)
(* Bounds of the model.                                                    *)
(***************************************************************************)
\* longest short source handed to off_thread
MaxLen == 3
\* items of a short source are 1..MaxItem, the numbers folded are 0..MaxItem
MaxItem == 2
\* long sources have ChannelCapacity + k items, k in 0..MaxOver
MaxOver == 1

\* thresholds of the reducer are 1..MaxThreshold
MaxThreshold == 7
\* how often next() is called again after it returned None
MaxNones == 2

\* longest document list handed to the program
MaxDocs == 3
\* is_large holds once the index has 1..MaxSpill words
MaxSpill == 4

\* mpsc::sync_channel(1024)
ChannelCapacity == 1024

(***************************************************************************)
(* State of one call of off_thread.                                        *)
(***************************************************************************)
VARIABLES
  ot_source,         \* the iterator `self`, as the list of items it yields
  ot_idx,            \* position of the worker's `for item in self`
  ot_chan,           \* the buffer of the sync_channel
  ot_worker,         \* "none" | "running" | "finished"
  ot_senderAlive,    \* the worker's closure still owns `sender`
  ot_receiverAlive,  \* `receiver` (or the iterator made of it) not yet dropped
  ot_pc,             \* the caller: "call" | "join" | "iter" | "done" | "dropped"
  ot_received        \* what the returned sequence has yielded so far

otVars == <<ot_source, ot_idx, ot_chan, ot_worker, ot_senderAlive,
            ot_receiverAlive, ot_pc, ot_received>>

(***************************************************************************)
(* State of one ConditionAccmulator and its consumer.                      *)
(***************************************************************************)
VARIABLES
  cr_source,     \* the numbers handed to condition_reduce
  cr_self,       \* the ConditionAccmulator: iterator, acc, done, current,
                 \* condition_func (the reducer: its threshold, whether it unwraps)
  cr_out,        \* what next() has returned so far (the Some's)
  cr_calls,      \* the reducer calls made so far: item, ret, acc left
  cr_status,     \* "live" | "ended" (next() returned None) | "panicked"
  cr_nones       \* how often next() has returned None

crVars == <<cr_source, cr_self, cr_out, cr_calls, cr_status, cr_nones>>

(***************************************************************************)
(* State of the program, run on one document list in both modes.           *)
(* Variables indexed by BOOLEAN hold what the invocation with that value   *)
(* of `single_threaded` produced.                                          *)
(***************************************************************************)
VARIABLES
  documents,        \* per path 1..n what the file system holds there:
                    \* "unreadable" | "empty" | "text"
  spill_threshold,  \* the word count from which an index is_large
  single_threaded,  \* the flag of the invocation under way
  pc,               \* the orchestrating thread
  result,           \* what run() returned, <<>> until it has
  stdout,           \* the lines printed
  tmp_files,        \* the segment files written: path k holds tmp_files[..][k]
  merge,            \* the FileMerge: the paths added, whether finish succeeded
  faults,           \* the I/O failures the environment produced in write,
                    \* add_file and finish
  st                \* run_single_threaded: loop position, accumulated_index

VARIABLES
  stage,            \* the stage run_pipeline is building or waiting for
  worker,           \* per stage: "none" | "running" | "finished" | "panicked"
  chan,             \* per stage the buffer of its sync_channel
  doc_idx,          \* stage 1: position of documents.into_iter()
  enum_count,       \* stage 2: the counter of enumerate()
  accumulator,      \* stage 3: the ConditionAccmulator (its iterator is chan[2])
  reducer_calls,    \* stage 3: the calls of make_in_memory_merge made
  written,          \* stage 4: the fragments handed to write_index_to_tmp_file
  et_in,            \* per errors_to (stage 1, 4): the results it was fed
  et_out,           \* per errors_to: the values it yielded
  err_chan,         \* the error channel: sent and not yet received
  err_sent,         \* every result sent to the error channel
  err_holders,      \* who holds the Arc of the error sender: 0 run_pipeline,
                    \* 1 and 4 the closures of the two errors_to
  collected,        \* fille_merge_result
  fold_i,           \* position of the fold over fille_merge_result
  fold_acc,         \* the io::Result<FileMerge> the fold carries
  run_pipeline_result, \* what run_pipeline returned, <<>> until it has
  eh                \* the thread of error_handler

inVars == <<documents, spill_threshold>>

mainVars == <<single_threaded, pc, result, stdout, tmp_files, merge, faults>>

plVars == <<stage, worker, chan, doc_idx, enum_count, accumulator, reducer_calls,
            written, et_in, et_out, err_chan, err_sent, err_holders, collected,
            fold_i, fold_acc, run_pipeline_result, eh>>

runVars == <<inVars, mainVars, st, plVars>>

vars == <<otVars, crVars, runVars>>

(***************************************************************************)
(* std::sync::mpsc as the code uses it.                                    *)
(***************************************************************************)
\* SyncSender::send returns Err once the receiver is gone
SendIsErr(receiverAlive) == ~receiverAlive

\* SyncSender::send blocks while the bounded buffer is full
SendBlocks(buf, receiverAlive) == receiverAlive /\ Len(buf) >= ChannelCapacity

\* Receiver iteration blocks while the buffer is empty and a sender lives
RecvBlocks(buf, senderAlive) == buf = <<>> /\ senderAlive

(***************************************************************************)
(* off_thread, one call.                                                   *)
(***************************************************************************)
ShortSources == UNION {[1..n -> 1..MaxItem] : n \in 0..MaxLen}

LongSources == {[i \in 1..(ChannelCapacity + k) |-> i] : k \in 0..MaxOver}

OtInit ==
  /\ ot_source \in ShortSources \cup LongSources
  /\ ot_idx = 1
  /\ ot_chan = <<>>
  /\ ot_worker = "none"
  /\ ot_senderAlive = FALSE
  /\ ot_receiverAlive = FALSE
  /\ ot_pc = "call"
  /\ ot_received = <<>>

\* let (sender, receiver) = mpsc::sync_channel(1024); thread::spawn(..)
OffThreadSpawn ==
  /\ UNCHANGED <<crVars, runVars>>
  /\ ot_pc = "call"
  /\ ot_worker' = "running"
  /\ ot_senderAlive' = TRUE
  /\ ot_receiverAlive' = TRUE
  /\ ot_pc' = "join"
  /\ UNCHANGED <<ot_source, ot_idx, ot_chan, ot_received>>

\* the caller may leave `.join()` only when the worker thread has ended
JoinReturns(thread) == thread \in {"finished", "panicked"}

\* .join(); receiver.into_iter()
OffThreadJoin ==
  /\ UNCHANGED <<crVars, runVars>>
  /\ ot_pc = "join"
  /\ JoinReturns(ot_worker)
  /\ ot_pc' = "iter"
  /\ UNCHANGED <<ot_source, ot_idx, ot_chan, ot_worker, ot_senderAlive,
                 ot_receiverAlive, ot_received>>

\* the buffer after a successful send
SendDropsItem(buf, item) == buf

SendAppends(buf, item) == Append(buf, item)

\* one turn of `for item in self { if sender.send(item).is_err() { break; } }`
WorkerSend ==
  /\ UNCHANGED <<crVars, runVars>>
  /\ ot_worker = "running"
  /\ ot_idx <= Len(ot_source)
  /\ ~SendBlocks(ot_chan, ot_receiverAlive)
  /\ IF SendIsErr(ot_receiverAlive)
       THEN /\ ot_worker' = "finished"
            /\ ot_senderAlive' = FALSE
            /\ ot_chan' = ot_chan
       ELSE /\ ot_chan' = SendAppends(ot_chan, ot_source[ot_idx])
            /\ UNCHANGED <<ot_worker, ot_senderAlive>>
  /\ ot_idx' = ot_idx + 1
  /\ UNCHANGED <<ot_source, ot_receiverAlive, ot_pc, ot_received>>

\* the source is exhausted: the closure returns and drops `sender`
WorkerExit ==
  /\ UNCHANGED <<crVars, runVars>>
  /\ ot_worker = "running"
  /\ ot_idx > Len(ot_source)
  /\ ot_worker' = "finished"
  /\ ot_senderAlive' = FALSE
  /\ UNCHANGED <<ot_source, ot_idx, ot_chan, ot_receiverAlive, ot_pc, ot_received>>

\* the caller pulls the returned mpsc::IntoIter once
CallerNext ==
  /\ UNCHANGED <<crVars, runVars>>
  /\ ot_pc = "iter"
  /\ ~RecvBlocks(ot_chan, ot_senderAlive)
  /\ IF ot_chan /= <<>>
       THEN /\ ot_received' = Append(ot_received, Head(ot_chan))
            /\ ot_chan' = Tail(ot_chan)
            /\ UNCHANGED <<ot_pc, ot_receiverAlive>>
       ELSE /\ ot_pc' = "done"
            /\ ot_receiverAlive' = FALSE
            /\ UNCHANGED <<ot_received, ot_chan>>
  /\ UNCHANGED <<ot_source, ot_idx, ot_worker, ot_senderAlive>>

\* the caller drops the returned sequence without draining it
CallerDrop ==
  /\ UNCHANGED <<crVars, runVars>>
  /\ ot_pc = "iter"
  /\ ot_pc' = "dropped"
  /\ ot_receiverAlive' = FALSE
  /\ UNCHANGED <<ot_source, ot_idx, ot_chan, ot_worker, ot_senderAlive, ot_received>>

OtNext ==
  \/ OffThreadSpawn
  \/ OffThreadJoin
  \/ WorkerSend
  \/ WorkerExit
  \/ CallerNext
  \/ CallerDrop

(***************************************************************************)
(* Values: Option<T> is <<>> (None) or <<v>> (Some(v)); io::Result<T> is a *)
(* record.                                                                 *)
(***************************************************************************)
Some(v) == <<v>>

Ok(v) == [ok |-> TRUE, v |-> v, e |-> <<>>]

Err(op, arg) == [ok |-> FALSE, v |-> <<>>, e |-> <<op, arg>>]

\* enum Message
Text(t) == [tag |-> "Text", body |-> t]

FilePath(f) == [tag |-> "FilePath", body |-> <<f>>]

(***************************************************************************)
(* The collaborators index, write and merge.  An InMemoryIndex is the list *)
(* of its postings <<document id, term>>, one per word occurrence.         *)
(***************************************************************************)
\* File::open(filename) and read_to_string: the document at path i, when it
\* has text, holds the one word i
FileRead(filename) ==
  IF documents[filename] = "unreadable" THEN Err("read", filename)
  ELSE IF documents[filename] = "empty" THEN Ok(<<>>)
  ELSE Ok(<<filename>>)

\* InMemoryIndex::new
NewIndex == <<>>

\* InMemoryIndex::from_single_document
from_single_document(doc_id, text) ==
  [j \in 1..Len(text) |-> <<doc_id, text[j]>>]

\* InMemoryIndex::merge
IndexMerge(acc, other) == acc \o other

\* InMemoryIndex::is_large
is_large(index) == Len(index) >= spill_threshold

\* InMemoryIndex::is_empty
is_empty(index) == index = <<>>

(***************************************************************************)
(* The functions of main.rs the pipeline maps over its items.              *)
(***************************************************************************)
read_whole_file(filename) ==
  LET text == FileRead(filename)
  IN IF text.ok THEN Ok(Text(text.v)) ELSE text

make_single_file_index(doc_id, message) ==
  IF message.tag = "Text" THEN Ok(from_single_document(doc_id, message.body))
  ELSE Err("Not a text", doc_id)

\* the reducer of stage 3: what it leaves in acc, what it returns, whether
\* `file_index.unwrap()` panicked
MergeKeepsAcc(acc, file_index) ==
  IF file_index = <<>> THEN [acc |-> acc, ret |-> <<>>, panicked |-> TRUE]
  ELSE LET merged == IndexMerge(acc, file_index[1])
       IN IF is_large(merged)
            THEN [acc |-> merged, ret |-> Some(merged), panicked |-> FALSE]
            ELSE [acc |-> merged, ret |-> <<>>, panicked |-> FALSE]

make_in_memory_merge(acc, file_index) ==
  IF file_index = <<>> THEN [acc |-> acc, ret |-> <<>>, panicked |-> TRUE]
  ELSE LET merged == IndexMerge(acc, file_index[1])
       IN IF is_large(merged)
            THEN [acc |-> NewIndex, ret |-> Some(merged), panicked |-> FALSE]
            ELSE [acc |-> merged, ret |-> <<>>, panicked |-> FALSE]

(***************************************************************************)
(* condition_reduce: ConditionAccmulator and its reducers.                 *)
(* AccValue<T> is a record.                                                *)
(***************************************************************************)
Empty == [tag |-> "Empty"]

Value(v) == [tag |-> "Value", v |-> v]

\* ConditionAccmulatorExt::condition_reduce: the freshly built adapter
condition_reduce(iterator, func, Default) ==
  [iterator |-> iterator, acc |-> Default, done |-> FALSE, current |-> <<>>,
   condition_func |-> func]

\* `match condition_result`: the output and the accumulator left behind
EmitResultNoFlush(ret, done, acc, Default) ==
  IF ret /= <<>> THEN [result |-> Value(ret[1]), acc |-> acc]
  ELSE [result |-> Empty, acc |-> acc]

EmitResultFlushKeepsAcc(ret, done, acc, Default) ==
  IF ret /= <<>> THEN [result |-> Value(ret[1]), acc |-> acc]
  ELSE IF ~done THEN [result |-> Empty, acc |-> acc]
  ELSE [result |-> Value(acc), acc |-> acc]

EmitResult(ret, done, acc, Default) ==
  IF ret /= <<>> THEN [result |-> Value(ret[1]), acc |-> acc]
  ELSE IF ~done THEN [result |-> Empty, acc |-> acc]
  ELSE [result |-> Value(acc), acc |-> Default]

\* `match next`: the item handed to the reducer, the lookahead, and `done`
PeekDropsLookahead(next, rest) ==
  IF next = <<>> THEN [item |-> <<>>, current |-> <<>>, iterator |-> rest, done |-> TRUE]
  ELSE IF rest /= <<>>
    THEN [item |-> next, current |-> <<>>, iterator |-> Tail(rest), done |-> FALSE]
    ELSE [item |-> next, current |-> <<>>, iterator |-> rest, done |-> TRUE]

PeekWithoutLookahead(next, rest) ==
  IF next = <<>> THEN [item |-> <<>>, current |-> <<>>, iterator |-> rest, done |-> TRUE]
  ELSE [item |-> next, current |-> <<>>, iterator |-> rest, done |-> FALSE]

Peek(next, rest) ==
  IF next = <<>> THEN [item |-> <<>>, current |-> <<>>, iterator |-> rest, done |-> TRUE]
  ELSE IF rest /= <<>>
    THEN [item |-> next, current |-> Some(Head(rest)), iterator |-> Tail(rest),
          done |-> FALSE]
    ELSE [item |-> next, current |-> <<>>, iterator |-> rest, done |-> TRUE]

\* The reducer of test_util with its threshold as a parameter: add the item,
\* and once the sum reaches the threshold return it and reset to 0.
\* `unwraps`: `next.unwrap()` as written (a panic on None); the other
\* reducers the trait bound admits take None as nothing to add.
ThresholdReducerNoReset(acc, next, threshold, unwraps) ==
  IF next = <<>> /\ unwraps THEN [acc |-> acc, ret |-> <<>>, panicked |-> TRUE]
  ELSE LET sum == IF next = <<>> THEN acc ELSE acc + next[1]
       IN IF sum >= threshold
            THEN [acc |-> sum, ret |-> Some(sum), panicked |-> FALSE]
            ELSE [acc |-> sum, ret |-> <<>>, panicked |-> FALSE]

ThresholdReducer(acc, next, threshold, unwraps) ==
  IF next = <<>> /\ unwraps THEN [acc |-> acc, ret |-> <<>>, panicked |-> TRUE]
  ELSE LET sum == IF next = <<>> THEN acc ELSE acc + next[1]
       IN IF sum >= threshold
            THEN [acc |-> 0, ret |-> Some(sum), panicked |-> FALSE]
            ELSE [acc |-> sum, ret |-> <<>>, panicked |-> FALSE]

\* the closure test_util hands to condition_reduce
TestUtilReducer(t, u) == [name |-> "test_util", threshold |-> t, unwraps |-> u]

\* (self.condition_func)(&mut self.acc, condition_item): the accumulator the
\* reducer leaves, what it returns, and whether it panicked
CallConditionFunc(func, acc, item) ==
  IF func.name = "make_in_memory_merge" THEN make_in_memory_merge(acc, item)
  ELSE ThresholdReducer(acc, item, func.threshold, func.unwraps)

\* ConditionAccmulator::next: the adapter afterwards, what next() returned
\* (<<>> for None), the reducer call made (<<>> when next() returned early),
\* and whether the reducer panicked.
ConditionAccmulatorNext(self, Default) ==
  IF self.done
    THEN [self |-> self, returned |-> <<>>, call |-> <<>>, panicked |-> FALSE]
    ELSE
      LET fromCurrent == self.current /= <<>>
          next == IF fromCurrent THEN self.current
                  ELSE IF self.iterator /= <<>> THEN Some(Head(self.iterator))
                  ELSE <<>>
          rest == IF fromCurrent \/ self.iterator = <<>> THEN self.iterator
                  ELSE Tail(self.iterator)
          p == Peek(next, rest)
          r == CallConditionFunc(self.condition_func, self.acc, p.item)
          e == EmitResult(r.ret, p.done, r.acc, Default)
          call == [item |-> p.item, ret |-> r.ret, acc |-> r.acc]
          after == [self EXCEPT !.iterator = p.iterator, !.done = p.done,
                                !.current = p.current]
      IN IF r.panicked
           THEN [self |-> [after EXCEPT !.acc = r.acc],
                 returned |-> <<>>, call |-> Some(call), panicked |-> TRUE]
           ELSE [self |-> [after EXCEPT !.acc = e.acc],
                 returned |-> Some(e.result), call |-> Some(call), panicked |-> FALSE]

\* the vectors of u32 test_util is run on
Numbers == UNION {[1..n -> 0..MaxItem] : n \in 0..MaxLen}

CrInit ==
  /\ cr_source \in Numbers
  /\ \E t \in 1..MaxThreshold, u \in BOOLEAN :
       cr_self = condition_reduce(cr_source, TestUtilReducer(t, u), 0)
  /\ cr_out = <<>>
  /\ cr_calls = <<>>
  /\ cr_status = "live"
  /\ cr_nones = 0

\* the consumer calls next() once
CallNext ==
  /\ UNCHANGED <<otVars, runVars>>
  /\ cr_status \in {"live", "ended"}
  /\ cr_nones < MaxNones
  /\ LET n == ConditionAccmulatorNext(cr_self, 0)
     IN /\ cr_self' = n.self
        /\ cr_calls' = cr_calls \o n.call
        /\ cr_out' = cr_out \o n.returned
        /\ cr_status' = IF n.panicked THEN "panicked"
                        ELSE IF n.returned = <<>> THEN "ended" ELSE cr_status
        /\ cr_nones' = IF ~n.panicked /\ n.returned = <<>> THEN cr_nones + 1
                       ELSE cr_nones
  /\ UNCHANGED cr_source

CrNext == CallNext

(***************************************************************************)
(* The program: main, run, run_single_threaded.                            *)
(***************************************************************************)
DocumentLists == UNION {[1..n -> {"unreadable", "empty", "text"}] : n \in 0..MaxDocs}

NoMerge == [files |-> <<>>, finished |-> FALSE]

PlIdle ==
  /\ stage = 1
  /\ worker = [k \in 1..4 |-> "none"]
  /\ chan = [k \in 1..4 |-> <<>>]
  /\ doc_idx = 1
  /\ enum_count = 0
  /\ accumulator = condition_reduce(<<>>, [name |-> "make_in_memory_merge"], NewIndex)
  /\ reducer_calls = <<>>
  /\ written = <<>>
  /\ et_in = [k \in {1, 4} |-> <<>>]
  /\ et_out = [k \in {1, 4} |-> <<>>]
  /\ err_chan = <<>>
  /\ err_sent = <<>>
  /\ err_holders = {}
  /\ collected = <<>>
  /\ fold_i = 1
  /\ fold_acc = Ok(<<>>)
  /\ run_pipeline_result = <<>>
  /\ eh = "none"

RunInit ==
  /\ documents \in DocumentLists
  /\ spill_threshold \in 1..MaxSpill
  /\ single_threaded = TRUE
  /\ pc = "run"
  /\ result = [b \in BOOLEAN |-> <<>>]
  /\ stdout = [b \in BOOLEAN |-> <<>>]
  /\ tmp_files = [b \in BOOLEAN |-> <<>>]
  /\ merge = [b \in BOOLEAN |-> NoMerge]
  /\ faults = [b \in BOOLEAN |-> {}]
  /\ st = [i |-> 1, acc |-> NewIndex]
  /\ PlIdle

\* run(): the branch on single_threaded; in pipelined mode channel() and the
\* first lines of run_pipeline (the sender goes into an Arc)
Run ==
  /\ pc = "run"
  /\ pc' = IF single_threaded THEN "st_loop" ELSE "spawn"
  /\ err_holders' = IF single_threaded THEN err_holders ELSE {0}
  /\ UNCHANGED <<otVars, crVars, inVars, single_threaded, result, stdout, tmp_files,
                 merge, faults, st, stage, worker, chan, doc_idx, enum_count,
                 accumulator, reducer_calls, written, et_in, et_out, err_chan,
                 err_sent, collected, fold_i, fold_acc, run_pipeline_result, eh>>

\* write_index_to_tmp_file(index, &mut tmp_dir) followed by merge.add_file(file)?
\* in the invocation b: `wok`, `aok` say whether the environment lets the write
\* and the add succeed.  A failed write leaves no file.
WriteThenAdd(b, index, wok, aok) ==
  LET path == Len(tmp_files[b]) + 1
  IN IF ~wok
       THEN [tmp |-> tmp_files[b], merge |-> merge[b], err |-> Some(Err("write", path)),
             faults |-> {"write"}]
     ELSE IF ~aok
       THEN [tmp |-> Append(tmp_files[b], index), merge |-> merge[b],
             err |-> Some(Err("add_file", path)), faults |-> {"add_file"}]
     ELSE [tmp |-> Append(tmp_files[b], index),
           merge |-> [merge[b] EXCEPT !.files = Append(@, path)],
           err |-> <<>>, faults |-> {}]

\* one turn of `for (doc_id, filename) in documents.into_iter().enumerate()`
StDocument ==
  /\ pc = "st_loop"
  /\ st.i <= Len(documents)
  /\ LET text == FileRead(st.i)
         index == from_single_document(st.i - 1, text.v)
         acc == IndexMerge(st.acc, index)
     IN IF ~text.ok
          THEN /\ result' = [result EXCEPT ![TRUE] = Some(text)]
               /\ pc' = "main"
               /\ UNCHANGED <<st, tmp_files, merge, faults>>
          ELSE IF ~is_large(acc)
            THEN /\ st' = [i |-> st.i + 1, acc |-> acc]
                 /\ UNCHANGED <<pc, result, tmp_files, merge, faults>>
            ELSE \E wok, aok \in BOOLEAN :
                   LET w == WriteThenAdd(TRUE, acc, wok, aok)
                   IN /\ tmp_files' = [tmp_files EXCEPT ![TRUE] = w.tmp]
                      /\ merge' = [merge EXCEPT ![TRUE] = w.merge]
                      /\ faults' = [faults EXCEPT ![TRUE] = @ \cup w.faults]
                      /\ IF w.err /= <<>>
                           THEN /\ result' = [result EXCEPT ![TRUE] = w.err]
                                /\ pc' = "main"
                                /\ st' = [st EXCEPT !.acc = acc]
                           ELSE /\ st' = [i |-> st.i + 1, acc |-> NewIndex]
                                /\ UNCHANGED <<pc, result>>
  /\ UNCHANGED <<otVars, crVars, inVars, single_threaded, stdout, plVars>>

\* after the loop: `if !accumulated_index.is_empty() { .. }`
StLastWrite ==
  /\ pc = "st_loop"
  /\ st.i > Len(documents)
  /\ IF is_empty(st.acc)
       THEN /\ pc' = "st_finish"
            /\ UNCHANGED <<result, tmp_files, merge, faults>>
       ELSE \E wok, aok \in BOOLEAN :
              LET w == WriteThenAdd(TRUE, st.acc, wok, aok)
              IN /\ tmp_files' = [tmp_files EXCEPT ![TRUE] = w.tmp]
                 /\ merge' = [merge EXCEPT ![TRUE] = w.merge]
                 /\ faults' = [faults EXCEPT ![TRUE] = @ \cup w.faults]
                 /\ result' = [result EXCEPT ![TRUE] = w.err]
                 /\ pc' = IF w.err /= <<>> THEN "main" ELSE "st_finish"
  /\ UNCHANGED <<otVars, crVars, inVars, single_threaded, stdout, st, plVars>>

\* FileMerge::finish in the invocation b: `fok` says whether it succeeds
Finish(b, fok) ==
  [merge |-> [merge[b] EXCEPT !.finished = fok],
   res |-> IF fok THEN Ok(<<>>) ELSE Err("finish", 0),
   faults |-> IF fok THEN {} ELSE {"finish"}]

\* merge.finish(), the value of run_single_threaded
StFinish ==
  /\ pc = "st_finish"
  /\ \E fok \in BOOLEAN :
       LET f == Finish(TRUE, fok)
       IN /\ merge' = [merge EXCEPT ![TRUE] = f.merge]
          /\ faults' = [faults EXCEPT ![TRUE] = @ \cup f.faults]
          /\ result' = [result EXCEPT ![TRUE] = Some(f.res)]
  /\ pc' = "main"
  /\ UNCHANGED <<otVars, crVars, inVars, single_threaded, stdout, tmp_files, st, plVars>>

\* main: match run(..) { Ok(()) => {}, Err(err) => println!("error: {}", err) }
MainPrints(res) == IF res.ok THEN <<>> ELSE <<<<"error", res.e>>>>

MainMatch ==
  /\ pc = "main"
  /\ stdout' = [stdout EXCEPT ![single_threaded] = @ \o MainPrints(result[single_threaded][1])]
  /\ pc' = "exit"
  /\ UNCHANGED <<otVars, crVars, inVars, single_threaded, result, tmp_files, merge,
                 faults, st, plVars>>

\* the program is run again on the same documents, now without -1
RunAgainPipelined ==
  /\ pc = "exit"
  /\ single_threaded
  /\ single_threaded' = FALSE
  /\ pc' = "run"
  /\ UNCHANGED <<otVars, crVars, inVars, result, stdout, tmp_files, merge, faults,
                 st, plVars>>

(***************************************************************************)
(* run_pipeline: four off_thread stages, then collect, fold and finish.    *)
(***************************************************************************)
\* the closure of errors_to on one item: what the filter_map yields and what
\* goes to the error sender (the thread errors_to spawns runs an empty closure)
ErrorsToSendsTwice(item) ==
  IF ~item.ok THEN [out |-> <<>>, sent |-> <<item, item>>]
  ELSE [out |-> <<item.v>>, sent |-> <<>>]

errors_to(item) ==
  IF ~item.ok THEN [out |-> <<>>, sent |-> <<item>>]
  ELSE [out |-> <<item.v>>, sent |-> <<>>]

\* the worker of stage k owns the sender of channel k until it ends
SenderAlive(k) == worker[k] = "running"

\* the receiver of channel k belongs to the iterator the next stage's worker
\* consumes, the one of channel 4 to the collect() of run_pipeline
ReceiverAlive(k) ==
  IF k < 4 THEN worker[k + 1] \notin {"finished", "panicked"}
  ELSE pc \in {"spawn", "join", "collect"}

\* `if sender.send(item).is_err() { break; }` in the worker of stage k for the
\* items `out` its iterator yielded (none or one)
AfterSend(k, out) ==
  IF out = <<>> THEN [chan |-> chan, worker |-> worker]
  ELSE IF SendIsErr(ReceiverAlive(k))
    THEN [chan |-> chan, worker |-> [worker EXCEPT ![k] = "finished"]]
    ELSE [chan |-> [chan EXCEPT ![k] = SendAppends(@, out[1])], worker |-> worker]

\* the next stage's iterator is built (for 1 and 4 with sender.clone()) and
\* off_thread creates its channel and spawns its worker
PlSpawn ==
  /\ pc = "spawn"
  /\ worker' = [worker EXCEPT ![stage] = "running"]
  /\ err_holders' = IF stage \in {1, 4} THEN err_holders \cup {stage} ELSE err_holders
  /\ pc' = "join"
  /\ UNCHANGED <<otVars, crVars, inVars, single_threaded, result, stdout, tmp_files,
                 merge, faults, st, stage, chan, doc_idx, enum_count, accumulator,
                 reducer_calls, written, et_in, et_out, err_chan, err_sent,
                 collected, fold_i, fold_acc, run_pipeline_result, eh>>

\* off_thread: .join(), then the receiver is returned
PlJoin ==
  /\ pc = "join"
  /\ JoinReturns(worker[stage])
  /\ pc' = IF stage < 4 THEN "spawn" ELSE "collect"
  /\ stage' = IF stage < 4 THEN stage + 1 ELSE stage
  /\ UNCHANGED <<otVars, crVars, inVars, single_threaded, result, stdout, tmp_files,
                 merge, faults, st, worker, chan, doc_idx, enum_count, accumulator,
                 reducer_calls, written, et_in, et_out, err_chan, err_sent,
                 err_holders, collected, fold_i, fold_acc, run_pipeline_result, eh>>

\* stage 1, one document: .map(read_whole_file).errors_to(sender.clone())
ReadStage ==
  /\ worker[1] = "running"
  /\ doc_idx <= Len(documents)
  /\ LET item == read_whole_file(doc_idx)
         f == errors_to(item)
         a == AfterSend(1, f.out)
     IN /\ f.out /= <<>> => ~SendBlocks(chan[1], ReceiverAlive(1))
        /\ et_in' = [et_in EXCEPT ![1] = Append(@, item)]
        /\ et_out' = [et_out EXCEPT ![1] = @ \o f.out]
        /\ err_chan' = err_chan \o f.sent
        /\ err_sent' = err_sent \o f.sent
        /\ chan' = a.chan
        /\ worker' = a.worker
        /\ err_holders' = IF a.worker[1] = "running" THEN err_holders
                          ELSE err_holders \ {1}
  /\ doc_idx' = doc_idx + 1
  /\ UNCHANGED <<otVars, crVars, inVars, mainVars, st, stage, enum_count, accumulator,
                 reducer_calls, written, collected, fold_i, fold_acc,
                 run_pipeline_result, eh>>

\* stage 1: the documents are exhausted, the worker drops iterator and sender
ReadStageExit ==
  /\ worker[1] = "running"
  /\ doc_idx > Len(documents)
  /\ worker' = [worker EXCEPT ![1] = "finished"]
  /\ err_holders' = err_holders \ {1}
  /\ UNCHANGED <<otVars, crVars, inVars, mainVars, st, stage, chan, doc_idx,
                 enum_count, accumulator, reducer_calls, written, et_in, et_out,
                 err_chan, err_sent, collected, fold_i, fold_acc,
                 run_pipeline_result, eh>>

\* stage 2, one item: .enumerate().map(make_single_file_index)
IndexStage ==
  /\ worker[2] = "running"
  /\ chan[1] /= <<>>
  /\ ~SendBlocks(chan[2], ReceiverAlive(2))
  /\ LET item == make_single_file_index(enum_count, Head(chan[1]))
         a == AfterSend(2, <<item>>)
     IN /\ chan' = [a.chan EXCEPT ![1] = Tail(@)]
        /\ worker' = a.worker
  /\ enum_count' = enum_count + 1
  /\ UNCHANGED <<otVars, crVars, inVars, mainVars, st, stage, doc_idx, accumulator,
                 reducer_calls, written, et_in, et_out, err_chan, err_sent,
                 err_holders, collected, fold_i, fold_acc, run_pipeline_result, eh>>

\* stage 2: channel 1 is closed and drained
IndexStageExit ==
  /\ worker[2] = "running"
  /\ chan[1] = <<>>
  /\ ~RecvBlocks(chan[1], SenderAlive(1))
  /\ worker' = [worker EXCEPT ![2] = "finished"]
  /\ UNCHANGED <<otVars, crVars, inVars, mainVars, st, stage, chan, doc_idx,
                 enum_count, accumulator, reducer_calls, written, et_in, et_out,
                 err_chan, err_sent, err_holders, collected, fold_i, fold_acc,
                 run_pipeline_result, eh>>

\* .filter_map(|result| result.ok()) over what channel 2 holds
RECURSIVE OkValues(_)
OkValues(results) ==
  IF results = <<>> THEN <<>>
  ELSE IF Head(results).ok THEN <<Head(results).v>> \o OkValues(Tail(results))
  ELSE OkValues(Tail(results))

\* next() of the ConditionAccmulator has to wait for channel 2: it pulls one
\* item, and a second one when it holds no lookahead yet
AccumulatorWaits ==
  /\ SenderAlive(2)
  /\ ~accumulator.done
  /\ Len(chan[2]) < (IF accumulator.current /= <<>> THEN 1 ELSE 2)

\* stage 3, one call of ConditionAccmulator::next under the filter_map that
\* keeps the Values: .condition_reduce(make_in_memory_merge).filter_map(..)
AccumulateStage ==
  /\ worker[3] = "running"
  /\ ~AccumulatorWaits
  /\ LET n == ConditionAccmulatorNext(
                [accumulator EXCEPT !.iterator = OkValues(chan[2])], NewIndex)
         out == IF n.returned /= <<>> /\ n.returned[1].tag = "Value"
                  THEN <<n.returned[1].v>> ELSE <<>>
         a == AfterSend(3, out)
     IN /\ out /= <<>> => ~SendBlocks(chan[3], ReceiverAlive(3))
        /\ accumulator' = [n.self EXCEPT !.iterator = <<>>]
        /\ reducer_calls' = reducer_calls \o n.call
        /\ chan' = [a.chan EXCEPT
                      ![2] = [i \in 1..Len(n.self.iterator) |-> Ok(n.self.iterator[i])]]
        /\ worker' = IF n.panicked THEN [worker EXCEPT ![3] = "panicked"]
                     ELSE IF n.returned = <<>> THEN [worker EXCEPT ![3] = "finished"]
                     ELSE a.worker
  /\ UNCHANGED <<otVars, crVars, inVars, mainVars, st, stage, doc_idx, enum_count,
                 written, et_in, et_out, err_chan, err_sent, err_holders, collected,
                 fold_i, fold_acc, run_pipeline_result, eh>>

\* write_index_to_tmp_file(big_indexes, &mut tmp_dir) in the pipelined
\* invocation: `wok` says whether the environment lets the write succeed
WriteSegment(index, wok) ==
  LET path == Len(tmp_files[FALSE]) + 1
  IN IF wok THEN [tmp |-> Append(tmp_files[FALSE], index), res |-> Ok(FilePath(path)),
                  faults |-> {}]
     ELSE [tmp |-> tmp_files[FALSE], res |-> Err("write", Len(written) + 1),
           faults |-> {"write"}]

\* stage 4, one fragment: .map(write ..).errors_to(sender.clone())
WriteStage ==
  /\ worker[4] = "running"
  /\ chan[3] /= <<>>
  /\ \E wok \in BOOLEAN :
       LET w == WriteSegment(Head(chan[3]), wok)
           f == errors_to(w.res)
           a == AfterSend(4, f.out)
       IN /\ f.out /= <<>> => ~SendBlocks(chan[4], ReceiverAlive(4))
          /\ tmp_files' = [tmp_files EXCEPT ![FALSE] = w.tmp]
          /\ faults' = [faults EXCEPT ![FALSE] = @ \cup w.faults]
          /\ et_in' = [et_in EXCEPT ![4] = Append(@, w.res)]
          /\ et_out' = [et_out EXCEPT ![4] = @ \o f.out]
          /\ err_chan' = err_chan \o f.sent
          /\ err_sent' = err_sent \o f.sent
          /\ chan' = [a.chan EXCEPT ![3] = Tail(@)]
          /\ worker' = a.worker
          /\ err_holders' = IF a.worker[4] = "running" THEN err_holders
                            ELSE err_holders \ {4}
  /\ written' = Append(written, Head(chan[3]))
  /\ UNCHANGED <<otVars, crVars, inVars, single_threaded, pc, result, stdout, merge,
                 st, stage, doc_idx, enum_count, accumulator, reducer_calls,
                 collected, fold_i, fold_acc, run_pipeline_result, eh>>

\* stage 4: channel 3 is closed and drained
WriteStageExit ==
  /\ worker[4] = "running"
  /\ chan[3] = <<>>
  /\ ~RecvBlocks(chan[3], SenderAlive(3))
  /\ worker' = [worker EXCEPT ![4] = "finished"]
  /\ err_holders' = err_holders \ {4}
  /\ UNCHANGED <<otVars, crVars, inVars, mainVars, st, stage, chan, doc_idx,
                 enum_count, accumulator, reducer_calls, written, et_in, et_out,
                 err_chan, err_sent, collected, fold_i, fold_acc,
                 run_pipeline_result, eh>>

\* .collect(): one pull of the receiver of channel 4; at its end
\* FileMerge::new and the start of the fold
PlCollect ==
  /\ pc = "collect"
  /\ ~RecvBlocks(chan[4], SenderAlive(4))
  /\ IF chan[4] /= <<>>
       THEN /\ collected' = Append(collected, Head(chan[4]))
            /\ chan' = [chan EXCEPT ![4] = Tail(@)]
            /\ pc' = pc
       ELSE /\ pc' = "fold"
            /\ UNCHANGED <<collected, chan>>
  /\ UNCHANGED <<otVars, crVars, inVars, single_threaded, result, stdout, tmp_files,
                 merge, faults, st, stage, worker, doc_idx, enum_count, accumulator,
                 reducer_calls, written, et_in, et_out, err_chan, err_sent,
                 err_holders, fold_i, fold_acc, run_pipeline_result, eh>>

\* make_merge_index_file(merge, message): the Result it returns and the
\* FileMerge afterwards; `aok` says whether add_file succeeds
MergeIndexFilePrepends(acc, message, aok) ==
  IF message.tag /= "FilePath"
    THEN [res |-> Err("Message type is incorroct", 0), merge |-> merge[FALSE],
          faults |-> {}]
  ELSE IF ~acc.ok THEN [res |-> acc, merge |-> merge[FALSE], faults |-> {}]
  ELSE IF ~aok
    THEN [res |-> Err("add_file", message.body[1]), merge |-> merge[FALSE],
          faults |-> {"add_file"}]
  ELSE [res |-> Ok(<<>>),
        merge |-> [merge[FALSE] EXCEPT !.files = <<message.body[1]>> \o @],
        faults |-> {}]

make_merge_index_file(acc, message, aok) ==
  IF message.tag /= "FilePath"
    THEN [res |-> Err("Message type is incorroct", 0), merge |-> merge[FALSE],
          faults |-> {}]
  ELSE IF ~acc.ok THEN [res |-> acc, merge |-> merge[FALSE], faults |-> {}]
  ELSE IF ~aok
    THEN [res |-> Err("add_file", message.body[1]), merge |-> merge[FALSE],
          faults |-> {"add_file"}]
  ELSE [res |-> Ok(<<>>),
        merge |-> [merge[FALSE] EXCEPT !.files = Append(@, message.body[1])],
        faults |-> {}]

\* one turn of .fold(Ok(merge), make_merge_index_file)
PlFold ==
  /\ pc = "fold"
  /\ fold_i <= Len(collected)
  /\ \E aok \in BOOLEAN :
       LET m == make_merge_index_file(fold_acc, collected[fold_i], aok)
       IN /\ fold_acc' = m.res
          /\ merge' = [merge EXCEPT ![FALSE] = m.merge]
          /\ faults' = [faults EXCEPT ![FALSE] = @ \cup m.faults]
  /\ fold_i' = fold_i + 1
  /\ UNCHANGED <<otVars, crVars, inVars, single_threaded, pc, result, stdout,
                 tmp_files, st, stage, worker, chan, doc_idx, enum_count,
                 accumulator, reducer_calls, written, et_in, et_out, err_chan,
                 err_sent, err_holders, collected, run_pipeline_result, eh>>

\* what run_pipeline returns after `let m = r?; let _ = m.finish(); Ok(())`,
\* given the fold's result and the result of finish
PipelineReturns(r, finished) == IF ~r.ok THEN r ELSE Ok(<<>>)

\* let m = r?; let _ = m.finish(); Ok(()) -- and run_pipeline's `sender` is
\* dropped as it returns
PlFinish ==
  /\ pc = "fold"
  /\ fold_i > Len(collected)
  /\ IF ~fold_acc.ok
       THEN /\ run_pipeline_result' = Some(PipelineReturns(fold_acc, fold_acc))
            /\ UNCHANGED <<merge, faults>>
       ELSE \E fok \in BOOLEAN :
              LET f == Finish(FALSE, fok)
              IN /\ merge' = [merge EXCEPT ![FALSE] = f.merge]
                 /\ faults' = [faults EXCEPT ![FALSE] = @ \cup f.faults]
                 /\ run_pipeline_result' = Some(PipelineReturns(fold_acc, f.res))
  /\ err_holders' = err_holders \ {0}
  /\ pc' = "error_handler"
  /\ UNCHANGED <<otVars, crVars, inVars, single_threaded, result, stdout, tmp_files,
                 st, stage, worker, chan, doc_idx, enum_count, accumulator,
                 reducer_calls, written, et_in, et_out, err_chan, err_sent,
                 collected, fold_i, fold_acc, eh>>

(***************************************************************************)
(* run, pipelined: error_handler after run_pipeline.                       *)
(***************************************************************************)
\* error_handler: thread::spawn(..)
ErrorHandlerSpawn ==
  /\ pc = "error_handler"
  /\ eh' = "running"
  /\ pc' = "eh_join"
  /\ UNCHANGED <<otVars, crVars, inVars, single_threaded, result, stdout, tmp_files,
                 merge, faults, st, stage, worker, chan, doc_idx, enum_count,
                 accumulator, reducer_calls, written, et_in, et_out, err_chan,
                 err_sent, err_holders, collected, fold_i, fold_acc,
                 run_pipeline_result>>

\* what the handler prints for one received result
HandlerPrintsNothing(res) == <<>>

HandlerPrints(res) == IF res.ok THEN <<>> ELSE <<<<"Error reading file", res.e>>>>

\* one turn of `for result in error_receiver`
ErrorHandlerLog ==
  /\ eh = "running"
  /\ err_chan /= <<>>
  /\ stdout' = [stdout EXCEPT ![FALSE] = @ \o HandlerPrints(Head(err_chan))]
  /\ err_chan' = Tail(err_chan)
  /\ UNCHANGED <<otVars, crVars, inVars, single_threaded, pc, result, tmp_files,
                 merge, faults, st, stage, worker, chan, doc_idx, enum_count,
                 accumulator, reducer_calls, written, et_in, et_out, err_sent,
                 err_holders, collected, fold_i, fold_acc, run_pipeline_result, eh>>

\* the error channel is empty and every sender is gone: the loop ends
ErrorHandlerExit ==
  /\ eh = "running"
  /\ err_chan = <<>>
  /\ ~RecvBlocks(err_chan, err_holders /= {})
  /\ eh' = "finished"
  /\ UNCHANGED <<otVars, crVars, inVars, mainVars, st, stage, worker, chan, doc_idx,
                 enum_count, accumulator, reducer_calls, written, et_in, et_out,
                 err_chan, err_sent, err_holders, collected, fold_i, fold_acc,
                 run_pipeline_result>>

\* what run returns in pipelined mode: `let _ = run_pipeline(..); ..; Ok(())`
RunReturns(r) == Ok(<<>>)

\* error_handler's .join() returns, then run returns
RunReturn ==
  /\ pc = "eh_join"
  /\ JoinReturns(eh)
  /\ result' = [result EXCEPT ![FALSE] = Some(RunReturns(run_pipeline_result[1]))]
  /\ pc' = "main"
  /\ UNCHANGED <<otVars, crVars, inVars, single_threaded, stdout, tmp_files, merge,
                 faults, st, plVars>>

RunNext ==
  \/ Run
  \/ StDocument
  \/ StLastWrite
  \/ StFinish
  \/ MainMatch
  \/ RunAgainPipelined
  \/ PlSpawn
  \/ PlJoin
  \/ ReadStage
  \/ ReadStageExit
  \/ IndexStage
  \/ IndexStageExit
  \/ AccumulateStage
  \/ WriteStage
  \/ WriteStageExit
  \/ PlCollect
  \/ PlFold
  \/ PlFinish
  \/ ErrorHandlerSpawn
  \/ ErrorHandlerLog
  \/ ErrorHandlerExit
  \/ RunReturn

RunIdle ==
  /\ documents = <<>>
  /\ spill_threshold = 1
  /\ single_threaded = TRUE
  /\ pc = "idle"
  /\ result = [b \in BOOLEAN |-> <<>>]
  /\ stdout = [b \in BOOLEAN |-> <<>>]
  /\ tmp_files = [b \in BOOLEAN |-> <<>>]
  /\ merge = [b \in BOOLEAN |-> NoMerge]
  /\ faults = [b \in BOOLEAN |-> {}]
  /\ st = [i |-> 1, acc |-> NewIndex]
  /\ PlIdle

OtIdle ==
  /\ ot_source = <<>>
  /\ ot_idx = 1
  /\ ot_chan = <<>>
  /\ ot_worker = "none"
  /\ ot_senderAlive = FALSE
  /\ ot_receiverAlive = FALSE
  /\ ot_pc = "idle"
  /\ ot_received = <<>>

CrIdle ==
  /\ cr_source = <<>>
  /\ cr_self = condition_reduce(<<>>, TestUtilReducer(1, TRUE), 0)
  /\ cr_out = <<>>
  /\ cr_calls = <<>>
  /\ cr_status = "idle"
  /\ cr_nones = 0

OtStart == OtInit /\ CrIdle /\ RunIdle

SpecOffThread == OtStart /\ [][OtNext]_vars

CrStart == CrInit /\ OtIdle /\ RunIdle

SpecReduce == CrStart /\ [][CrNext]_vars

Init == RunInit /\ OtIdle /\ CrIdle

Next == RunNext

Spec == Init /\ [][Next]_vars

\* every thread the program spawns is an OS thread: one that can take a step
\* is eventually scheduled
FairSpec == Spec /\ WF_vars(Next)

(***************************************************************************)
(* Stage 2 and what follows it, on every input its type admits.            *)
(* make_single_file_index takes any Message; stage 1 only ever sends Text. *)
(* Here channel 1 is handed over as stage 1 leaves it for readable         *)
(* documents, with any of the messages tagged FilePath instead of Text,    *)
(* and run_pipeline goes on from the spawn of stage 2.                     *)
(***************************************************************************)
ReadableLists == {d \in DocumentLists : \A i \in DOMAIN d : d[i] /= "unreadable"}

\* the message of path i, tagged FilePath when i is in `wrong`
MessageOf(i, wrong) == IF i \in wrong THEN FilePath(i) ELSE read_whole_file(i).v

IndexStageInit ==
  /\ documents \in ReadableLists
  /\ spill_threshold \in 1..MaxSpill
  /\ single_threaded = FALSE
  /\ pc = "spawn"
  /\ result = [b \in BOOLEAN |-> <<>>]
  /\ stdout = [b \in BOOLEAN |-> <<>>]
  /\ tmp_files = [b \in BOOLEAN |-> <<>>]
  /\ merge = [b \in BOOLEAN |-> NoMerge]
  /\ faults = [b \in BOOLEAN |-> {}]
  /\ st = [i |-> 1, acc |-> NewIndex]
  /\ stage = 2
  /\ worker = [k \in 1..4 |-> IF k = 1 THEN "finished" ELSE "none"]
  /\ \E wrong \in SUBSET DOMAIN documents :
       LET sent == [i \in DOMAIN documents |-> MessageOf(i, wrong)]
       IN /\ chan = [k \in 1..4 |-> IF k = 1 THEN sent ELSE <<>>]
          /\ et_in = [k \in {1, 4} |->
                        IF k = 1 THEN [i \in DOMAIN sent |-> Ok(sent[i])] ELSE <<>>]
          /\ et_out = [k \in {1, 4} |-> IF k = 1 THEN sent ELSE <<>>]
  /\ doc_idx = Len(documents) + 1
  /\ enum_count = 0
  /\ accumulator = condition_reduce(<<>>, [name |-> "make_in_memory_merge"], NewIndex)
  /\ reducer_calls = <<>>
  /\ written = <<>>
  /\ err_chan = <<>>
  /\ err_sent = <<>>
  /\ err_holders = {0}
  /\ collected = <<>>
  /\ fold_i = 1
  /\ fold_acc = Ok(<<>>)
  /\ run_pipeline_result = <<>>
  /\ eh = "none"

IndexStageStart == IndexStageInit /\ OtIdle /\ CrIdle

IndexStageNext ==
  \/ PlSpawn
  \/ PlJoin
  \/ IndexStage
  \/ IndexStageExit
  \/ AccumulateStage
  \/ WriteStage
  \/ WriteStageExit
  \/ PlCollect
  \/ PlFold
  \/ PlFinish
  \/ ErrorHandlerSpawn
  \/ ErrorHandlerLog
  \/ ErrorHandlerExit
  \/ RunReturn
  \/ MainMatch

SpecIndexStage == IndexStageStart /\ [][IndexStageNext]_vars

(***************************************************************************)
(* Helpers of the properties.                                              *)
(***************************************************************************)
RECURSIVE SumSeq(_)
SumSeq(q) == IF q = <<>> THEN 0 ELSE Head(q) + SumSeq(Tail(q))

\* the payloads of the Value outputs, in order (the filter_map of test_util)
RECURSIVE Values(_)
Values(out) ==
  IF out = <<>> THEN <<>>
  ELSE IF Head(out).tag = "Value" THEN <<Head(out).v>> \o Values(Tail(out))
  ELSE Values(Tail(out))

IsPrefix(p, q) == Len(p) <= Len(q) /\ p = SubSeq(q, 1, Len(p))

\* the caller sits in `.join()` and the worker has not ended
CallerBlockedInJoin == ot_pc = "join" /\ ~JoinReturns(ot_worker)

\* the worker sits in `sender.send(item)` on a full channel
WorkerBlockedOnFullChannel ==
  /\ ot_worker = "running"
  /\ ot_idx <= Len(ot_source)
  /\ SendBlocks(ot_chan, ot_receiverAlive)

(***************************************************************************)
(* C1.  For every finite source, whatever its length relative to the       *)
(* channel capacity, the worker pushes every item and ends and the caller  *)
(* is never blocked forever: the state in which the worker is blocked on   *)
(* a full channel while the caller is blocked waiting for the worker is    *)
(* never reached.                                                          *)
(***************************************************************************)
C1_NoDeadlock == ~(CallerBlockedInJoin /\ WorkerBlockedOnFullChannel)

(***************************************************************************)
(* C2.  The sequence returned by off_thread yields exactly the source's    *)
(* items, each once, in the source's order: what has been yielded is       *)
(* always a prefix of the source, yielded and buffered items together are  *)
(* exactly the items the worker has pulled, and a sequence that has ended  *)
(* has yielded the whole source.                                           *)
(***************************************************************************)
C2_SameItemsSameOrder ==
  ot_pc \in {"join", "iter", "done", "dropped"} =>
    /\ IsPrefix(ot_received, ot_source)
    /\ ot_received \o ot_chan = SubSeq(ot_source, 1, ot_idx - 1)
    /\ ot_pc = "done" => ot_received = ot_source

C2_Witness ==
  /\ ot_pc = "done"
  /\ Len(ot_source) = MaxLen
  /\ ot_source[1] /= ot_source[2]
  /\ ot_received = ot_source

(***************************************************************************)
(* C3.  off_thread runs production concurrently with consumption: the      *)
(* caller holds the returned sequence while the worker still has source    *)
(* items left to pull, it does not wait in off_thread for the source to    *)
(* be exhausted.                                                           *)
(***************************************************************************)
C3_CallerDoesNotWaitForWorker ==
  (ot_worker = "running" /\ ot_idx <= Len(ot_source)) =>
    ot_pc \in {"iter", "done", "dropped"}

(***************************************************************************)
(* C4.  condition_reduce with a reducer that resets the accumulator when   *)
(* it returns a value: every input item is folded into exactly one         *)
(* emitted Value.  At every moment the emitted Values, the accumulator,    *)
(* the lookahead and the unread input add up to the whole input, and when  *)
(* the sequence has ended the emitted Values alone do, also when the last  *)
(* item is the one that triggers the emit.                                 *)
(***************************************************************************)
C4_EveryItemInExactlyOneValue ==
  cr_status \in {"live", "ended"} =>
    /\ SumSeq(Values(cr_out)) + cr_self.acc + SumSeq(cr_self.current)
         + SumSeq(cr_self.iterator) = SumSeq(cr_source)
    /\ cr_status = "ended" => SumSeq(Values(cr_out)) = SumSeq(cr_source)

C4_Witness ==
  /\ cr_status = "ended"
  /\ Len(cr_source) = MaxLen
  /\ Len(Values(cr_out)) = 2
  /\ cr_calls[Len(cr_calls)].ret /= <<>>
  /\ SumSeq(Values(cr_out)) = SumSeq(cr_source)

(***************************************************************************)
(* C5.  If the reducer never returns a value, condition_reduce emits       *)
(* exactly one Value, as its last output at end-of-input, equal to the     *)
(* fold of the whole sequence, and no Value before it.                     *)
(***************************************************************************)
ReducerNeverFired == \A i \in DOMAIN cr_calls : cr_calls[i].ret = <<>>

C5_OneValueAtEnd ==
  (cr_status = "ended" /\ ReducerNeverFired) =>
    /\ cr_out /= <<>>
    /\ cr_out[Len(cr_out)] = Value(SumSeq(cr_source))
    /\ \A i \in 1..(Len(cr_out) - 1) : cr_out[i] = Empty

C5_Witness ==
  /\ cr_status = "ended"
  /\ ReducerNeverFired
  /\ Len(cr_source) = MaxLen
  /\ Len(cr_out) = MaxLen
  /\ Values(cr_out) = <<SumSeq(cr_source)>>

(***************************************************************************)
(* C6, as claimed.  For every finite input, after the last input item has  *)
(* been folded the reducer is invoked one final time with None: the last   *)
(* reducer call of a sequence that has ended carries no item.              *)
(***************************************************************************)
C6_FinalCallCarriesNone ==
  cr_status = "ended" =>
    /\ cr_calls /= <<>>
    /\ cr_calls[Len(cr_calls)].item = <<>>

\* output i is a forced flush: the reducer returned none and a Value came out
IsFlush(i) == cr_calls[i].ret = <<>> /\ cr_out[i].tag = "Value"

(***************************************************************************)
(* C6, amended.  For a non-empty input the reducer is invoked once per     *)
(* item, in order, and never with None; the call that folds the last item  *)
(* is the final call, and exactly when that call returns none the          *)
(* combinator swaps the accumulator for a fresh default and emits the      *)
(* flushed value.  Only for an empty input is the reducer invoked, once,   *)
(* with None.                                                              *)
(***************************************************************************)
C6_FlushOnLastItem ==
  LET last == IF cr_source = <<>> THEN 1 ELSE Len(cr_source)
  IN /\ Len(cr_calls) <= last
     /\ \A i \in DOMAIN cr_calls :
          cr_calls[i].item = IF cr_source = <<>> THEN <<>> ELSE Some(cr_source[i])
     /\ cr_status = "ended" => Len(cr_calls) = last
     /\ \A i \in DOMAIN cr_out :
          /\ IsFlush(i) => /\ i = last
                           /\ cr_out[i] = Value(cr_calls[i].acc)
                           /\ cr_self.acc = 0
          /\ (i = last /\ cr_calls[i].ret = <<>>) => IsFlush(i)

C6_Witness ==
  /\ cr_status = "ended"
  /\ Len(cr_source) = MaxLen
  /\ Len(cr_calls) = MaxLen
  /\ IsFlush(MaxLen)
  /\ cr_out[MaxLen].v > 0
  /\ cr_self.acc = 0

\* the elements of a sequence
Range(q) == {q[i] : i \in DOMAIN q}

\* the invocation with single_threaded = b has ended
Exited(b) == IF b THEN pc = "exit" \/ ~single_threaded
             ELSE pc = "exit" /\ ~single_threaded

\* the postings of all segment files added to the merger in invocation b
SegmentsAdded(b) == UNION {Range(tmp_files[b][f]) : f \in Range(merge[b].files)}

(***************************************************************************)
(* C7.  For any document list and any spill threshold, run_single_threaded *)
(* and run_pipeline hand the merger segments with the same content: when   *)
(* both invocations have ended and the environment failed no write,        *)
(* add_file or finish, the postings of the segments added are equal.       *)
(***************************************************************************)
C7_SameSegmentContent ==
  (Exited(FALSE) /\ faults[TRUE] = {} /\ faults[FALSE] = {}) =>
    SegmentsAdded(TRUE) = SegmentsAdded(FALSE)

\* the failures among the results fed to the errors_to of stage k
Failures(k) == {i \in DOMAIN et_in[k] : ~et_in[k][i].ok}

\* how often the result r was sent to the error channel
TimesSent(r) == Cardinality({j \in DOMAIN err_sent : err_sent[j] = r})

\* what error_handler has taken out of the error channel so far
ErrorsReceived == SubSeq(err_sent, 1, Len(err_sent) - Len(err_chan))

(***************************************************************************)
(* C8.  errors_to, for both uses in run_pipeline sharing one sink: the     *)
(* output holds exactly the successful values in their order, every        *)
(* failure is sent to the sink exactly once and nothing else is, and       *)
(* count(input) = count(output) + count(failures sent); what the sink has  *)
(* received and what is still in its channel is what was sent.             *)
(***************************************************************************)
C8_ErrorsToSplitsResults ==
  /\ \A k \in {1, 4} :
       /\ et_out[k] = OkValues(et_in[k])
       /\ \A i \in Failures(k) : TimesSent(et_in[k][i]) = 1
       /\ Len(et_in[k]) = Len(et_out[k]) + Cardinality(Failures(k))
  /\ Len(err_sent) = Cardinality(Failures(1)) + Cardinality(Failures(4))
  /\ \A j \in DOMAIN err_sent :
       \E k \in {1, 4} : \E i \in Failures(k) : err_sent[j] = et_in[k][i]
  /\ ErrorsReceived \o err_chan = err_sent

C8_Witness ==
  /\ Exited(FALSE)
  /\ \A k \in {1, 4} : Failures(k) /= {} /\ et_out[k] /= <<>>
  /\ Len(err_sent) = 2
  /\ err_chan = <<>>

\* the words of the final index of invocation b (a document with text holds
\* the one word that is its path)
IndexedWords(b) == IF merge[b].finished THEN {p[2] : p \in SegmentsAdded(b)} ELSE {}

\* the lines printed in invocation b about the read failure of path i
ReadErrorLines(b, i) ==
  {j \in DOMAIN stdout[b] : stdout[b][j][2] = <<"read", i>>}

(***************************************************************************)
(* C9.  A document that cannot be read does not abort the run, in          *)
(* pipelined and in single-threaded mode alike: with no other failure the  *)
(* run completes with Ok, one error is logged for each unreadable          *)
(* document, and the final index holds exactly the readable documents.     *)
(***************************************************************************)
C9_UnreadableDocumentDoesNotAbort ==
  \A b \in BOOLEAN :
    (Exited(b) /\ faults[b] = {}) =>
      /\ result[b] = Some(Ok(<<>>))
      /\ merge[b].finished
      /\ \A i \in DOMAIN documents :
           Cardinality(ReadErrorLines(b, i)) =
             IF documents[i] = "unreadable" THEN 1 ELSE 0
      /\ IndexedWords(b) = {i \in DOMAIN documents : documents[i] = "text"}

(***************************************************************************)
(* C10.  A failure of the merge stage in pipelined mode (add_file on a     *)
(* segment, or finish of the merger) is fatal: run_pipeline returns the    *)
(* error, run returns it and main prints `error: <message>`.               *)
(***************************************************************************)
C10_MergeFailureIsFatal ==
  (Exited(FALSE) /\ faults[FALSE] \cap {"add_file", "finish"} /= {}) =>
    /\ ~run_pipeline_result[1].ok
    /\ result[FALSE] = run_pipeline_result
    /\ \E j \in DOMAIN stdout[FALSE] :
         stdout[FALSE][j] = <<"error", run_pipeline_result[1].e>>

\* the document ids found in the postings of an index, each with the path of
\* the document the posting's word comes from
IdsByPath(index) == {<<index[j][2], index[j][1]>> : j \in DOMAIN index}

\* the per-document indexes stage 2 built, as stage 3 received them
PerDocumentIndexes ==
  {reducer_calls[i].item[1] : i \in {j \in DOMAIN reducer_calls :
                                       reducer_calls[j].item /= <<>>}}

(***************************************************************************)
(* C11.  In run_pipeline every per-document index is built with the        *)
(* document id equal to the document's ordinal position in the input list  *)
(* (the document at path i has id i - 1), also when an earlier document    *)
(* failed to read; the segments run_single_threaded writes carry the same  *)
(* ids.                                                                    *)
(***************************************************************************)
C11_DocIdIsInputPosition ==
  /\ \A index \in PerDocumentIndexes :
       \A p \in IdsByPath(index) : p[2] = p[1] - 1
  /\ \A f \in DOMAIN tmp_files[TRUE] :
       \A p \in IdsByPath(tmp_files[TRUE][f]) : p[2] = p[1] - 1

\* the sums of the consecutive runs of q, a run being cut right after the
\* item at which its sum first reaches th; `sum` and `open` are the sum and
\* the non-emptiness of the run under way
RECURSIVE RunSums(_, _, _, _)
RunSums(q, th, sum, open) ==
  IF q = <<>> THEN (IF open THEN <<sum>> ELSE <<>>)
  ELSE IF sum + Head(q) >= th
    THEN <<sum + Head(q)>> \o RunSums(Tail(q), th, 0, FALSE)
    ELSE RunSums(Tail(q), th, sum + Head(q), TRUE)

\* the Values expected of test_util's reducer over cr_source
ExpectedValues == RunSums(cr_source, cr_self.condition_func.threshold, 0, FALSE)

(***************************************************************************)
(* C12.  With test_util's reducer (add the item; at or above the threshold *)
(* return the sum and reset to zero) the Values emitted over a non-empty   *)
(* sequence are the sums of the consecutive runs cut right after each item *)
(* at which the running sum first reaches the threshold, followed by the   *)
(* sum of the remaining items only if the last item did not reach the      *)
(* threshold: when the last item reaches it, its Value is the last output  *)
(* and no Value for an empty rest follows.                                 *)
(***************************************************************************)
C12_ValuesAreRunSums ==
  (cr_source /= <<>> /\ cr_status \in {"live", "ended"}) =>
    /\ IsPrefix(Values(cr_out), ExpectedValues)
    /\ cr_status = "ended" =>
         /\ Values(cr_out) = ExpectedValues
         /\ cr_calls[Len(cr_calls)].ret /= <<>> =>
              /\ cr_out[Len(cr_out)] = Value(cr_calls[Len(cr_calls)].ret[1])
              /\ cr_out[Len(cr_out)].v >= cr_self.condition_func.threshold

\* two runs, the second cut by the last item: no Value follows it
C12_Witness ==
  /\ cr_status = "ended"
  /\ cr_nones = MaxNones
  /\ Len(cr_source) = MaxLen
  /\ cr_self.condition_func.unwraps
  /\ Len(Values(cr_out)) = 2
  /\ cr_out[1].tag = "Value"
  /\ cr_calls[MaxLen].ret /= <<>>
  /\ Values(cr_out) = <<cr_source[1], cr_source[2] + cr_source[3]>>

\* every document of the list is readable and holds text
AllText == \A i \in DOMAIN documents : documents[i] = "text"

\* the postings of the whole document list, ids by input position
AllPostings ==
  UNION {Range(from_single_document(i - 1, FileRead(i).v)) :
           i \in {j \in DOMAIN documents : documents[j] /= "unreadable"}}

(***************************************************************************)
(* C13.  Pipelined mode, every document readable with text, no write or    *)
(* merge failure.  When is_large holds after every single document         *)
(* (threshold 1), N documents produce exactly N segment files, file k      *)
(* holding the index of document k, and all N are added to the merger in   *)
(* that order.  The set of postings handed to the merger is the one of     *)
(* the document list, the same as when no spill ever occurs (threshold     *)
(* above N), where one flushed segment holds them all.                     *)
(***************************************************************************)
C13_OneSegmentPerDocument ==
  (Exited(FALSE) /\ AllText /\ faults[FALSE] = {}) =>
    LET N == Len(documents)
    IN /\ spill_threshold = 1 =>
            /\ written = [k \in 1..N |-> from_single_document(k - 1, FileRead(k).v)]
            /\ tmp_files[FALSE] = written
            /\ merge[FALSE].files = [k \in 1..N |-> k]
       /\ spill_threshold > N =>
            /\ Len(tmp_files[FALSE]) = (IF N = 0 THEN 0 ELSE 1)
            /\ \A i \in DOMAIN reducer_calls : reducer_calls[i].ret = <<>>
       /\ SegmentsAdded(FALSE) = AllPostings

C13_Witness ==
  /\ Exited(FALSE)
  /\ AllText
  /\ faults[FALSE] = {}
  /\ spill_threshold = 1
  /\ Len(documents) = MaxDocs
  /\ Len(tmp_files[FALSE]) = MaxDocs
  /\ Len(merge[FALSE].files) = MaxDocs
  /\ merge[FALSE].finished
  /\ \A i \in DOMAIN reducer_calls : reducer_calls[i].ret /= <<>>

(***************************************************************************)
(* C14.  condition_reduce calls the reducer exactly once per input item,   *)
(* in input order, and next() produces one output per call: Empty exactly  *)
(* when the reducer returned none and at least one more input item         *)
(* remains, a Value otherwise.  A non-empty input of n items gives exactly *)
(* n outputs, the last always a Value, and after that next() returns None  *)
(* however often it is called.                                             *)
(***************************************************************************)
C14_OneOutputPerItem ==
  LET n == Len(cr_source)
  IN /\ \A i \in DOMAIN cr_calls :
          cr_calls[i].item /= <<>> => (i <= n /\ cr_calls[i].item = Some(cr_source[i]))
     /\ cr_source /= <<>> =>
          /\ cr_status /= "panicked"
          /\ Len(cr_calls) <= n
          /\ \A i \in DOMAIN cr_calls : cr_calls[i].item /= <<>>
          /\ cr_status = "ended" =>
               /\ Len(cr_out) = n
               /\ cr_out[n].tag = "Value"
          /\ cr_nones > 0 => cr_status = "ended"
     /\ cr_status \in {"live", "ended"} =>
          /\ Len(cr_out) = Len(cr_calls)
          /\ \A i \in DOMAIN cr_out :
               /\ cr_out[i].tag \in {"Empty", "Value"}
               /\ cr_out[i] = Empty <=> (cr_calls[i].ret = <<>> /\ i < n)

\* Empty, a Value the reducer returned, the flushed Value, then None twice
C14_Witness ==
  /\ cr_status = "ended"
  /\ cr_nones = MaxNones
  /\ Len(cr_source) = MaxLen
  /\ Len(cr_out) = MaxLen
  /\ cr_out[1] = Empty
  /\ cr_out[2].tag = "Value" /\ cr_calls[2].ret /= <<>>
  /\ cr_out[3].tag = "Value" /\ cr_calls[3].ret = <<>>

(***************************************************************************)
(* C15.  In no pipelined run, for any document list (the empty list and a  *)
(* list of unreadable documents included), is make_in_memory_merge called  *)
(* with None: its `file_index.unwrap()` never fails and no stage worker    *)
(* panics.                                                                 *)
(***************************************************************************)
C15_ReducerNeverGetsNone ==
  /\ \A i \in DOMAIN reducer_calls : reducer_calls[i].item /= <<>>
  /\ \A k \in 1..4 : worker[k] /= "panicked"

\* the results stage 2 has produced so far: make_single_file_index over the
\* enumerated output of stage 1
Stage2Results ==
  [i \in 1..enum_count |-> make_single_file_index(i - 1, et_out[1][i])]

C17_LoggingDoesNotWaitForPipeline ==
  (err_chan /= <<>> /\ run_pipeline_result = <<>>) => eh = "running"

\* the fold of run_pipeline has made its first add_file call
FoldHasAdded ==
  \/ merge[FALSE].files /= <<>>
  \/ "add_file" \in faults[FALSE]

\* the paths of the segment files in the order stage 4 emitted them
EmittedPaths == [i \in DOMAIN et_out[4] |-> et_out[4][i].body[1]]

\* how many fragments stage 3 has emitted once it has ended: one per call
\* in which the reducer returned a value, and the flush of the last call
FlushedFragments ==
  LET flushes == {i \in DOMAIN reducer_calls :
                    reducer_calls[i].ret /= <<>> \/ i = Len(reducer_calls)}
  IN Cardinality(flushes)

(***************************************************************************)
(* C18.  In run_pipeline no segment file is added to the merger before     *)
(* stage 4 has finished: at the first add_file every worker has ended,     *)
(* the channels between the stages are drained, every flushed fragment     *)
(* has been handed to the write and every path stage 4 emitted has been    *)
(* collected; the paths added are, in order, the first of those stage 4    *)
(* emitted.                                                                *)
(***************************************************************************)
C18_MergeOnlyAfterStage4 ==
  /\ FoldHasAdded =>
       /\ pc /= "collect"
       /\ \A k \in 1..4 : worker[k] \in {"finished", "panicked"}
       /\ chan[3] = <<>> /\ chan[4] = <<>>
       /\ worker[3] = "finished" => Len(written) = FlushedFragments
       /\ collected = et_out[4]
       /\ Len(tmp_files[FALSE]) = Len(collected)
  /\ IsPrefix(merge[FALSE].files, EmittedPaths)

C18_Witness ==
  /\ pc = "fold"
  /\ Len(merge[FALSE].files) = 2
  /\ Len(collected) = 2
  /\ Len(written) = MaxDocs
  /\ "write" \in faults[FALSE]
  /\ fold_i = 3

\* no document of the list is unreadable
AllReadable == \A i \in DOMAIN documents : documents[i] /= "unreadable"

(***************************************************************************)
(* C19.  Neither run_single_threaded nor run_pipeline ever writes a        *)
(* segment file from an empty index: every fragment handed to              *)
(* write_index_to_tmp_file holds at least one posting, for every document  *)
(* list (documents with an empty index and a last document that leaves     *)
(* the accumulator empty included), so that on readable documents and      *)
(* with no I/O failure both paths write the same number of segment files.  *)
(***************************************************************************)
C19_NoEmptySegment ==
  /\ \A i \in DOMAIN written : ~is_empty(written[i])
  /\ \A f \in DOMAIN tmp_files[TRUE] : ~is_empty(tmp_files[TRUE][f])
  /\ (Exited(FALSE) /\ AllReadable /\ faults[TRUE] = {} /\ faults[FALSE] = {}) =>
       Len(tmp_files[TRUE]) = Len(tmp_files[FALSE])

\* the lines error_handler has printed in the pipelined invocation
HandlerLines == SelectSeq(stdout[FALSE], LAMBDA l : l[1] = "Error reading file")

\* one line per failure forwarded to the error channel, in the order sent
ExpectedHandlerLines ==
  [i \in DOMAIN err_sent |-> <<"Error reading file", err_sent[i].e>>]

(***************************************************************************)
(* C20.  In pipelined mode, once run_pipeline has returned every clone of  *)
(* the error sender has been dropped; error_handler receives each failure  *)
(* forwarded during the run exactly once and logs it, sees the channel     *)
(* closed and terminates: when its thread has ended no failure is left in  *)
(* the channel and the lines logged are those of the failures sent, one    *)
(* each; and from the return of run_pipeline on, run always returns.       *)
(***************************************************************************)
C20_HandlerLogsAllAndRunReturns ==
  /\ [](run_pipeline_result /= <<>> => err_holders = {})
  /\ [](eh = "finished" =>
          /\ err_chan = <<>>
          /\ ErrorsReceived = err_sent
          /\ HandlerLines = ExpectedHandlerLines)
  /\ [](result[FALSE] /= <<>> => eh = "finished")
  /\ (run_pipeline_result /= <<>>) ~> (result[FALSE] /= <<>>)

C20_Witness ==
  /\ Exited(FALSE)
  /\ eh = "finished"
  /\ Len(err_sent) = 2
  /\ Failures(1) /= {} /\ Failures(4) /= {}
  /\ HandlerLines = ExpectedHandlerLines
  /\ result[FALSE] = Some(Ok(<<>>))

=============================================================================
